---- MODULE Spec2Model ----
(***************************************************************************)
(* RateCon Tracker (src/ratecon_tracker.py): field extraction from rate    *)
(* confirmation PDFs, rate reconciliation, and the deduplicating ingest    *)
(* of a batch of uploaded files into a Google-Sheet record store.          *)
(*                                                                         *)
(* Three specifications share the module:                                  *)
(*   Spec           the Streamlit callbacks of one session over the store  *)
(*   SpecExtract    extract_data_from_pdf applied to bounded texts         *)
(*   SpecReconcile  process_dataframe applied to bounded rate strings      *)
(***************************************************************************)
EXTENDS Integers, Sequences, FiniteSets, TLC

VARIABLES
    store,                    \* rows of the worksheet (the record store)
    cache,                    \* st.cache_data entry of load_log: <<>> or <<df>>
    sessions,                 \* the browser sessions that are open
    processing_complete,      \* st.session_state.processing_complete, per session
    processed_records,        \* st.session_state.processed_records, per session
    skipped_files,            \* st.session_state.skipped_files, per session
    show_delete_all_confirm,  \* st.session_state.show_delete_all_confirm
    notices,                  \* what the session's last callback showed, when it was a save
    uploaded_files,           \* the batch the last run_file_processing was given
    existing,                 \* the lookup sets that processing started from
    outcome,                  \* the branch each file of that batch took
    pdf,                      \* SpecExtract: the document given to the extractor
    extracted,                \* SpecExtract: <<>> or <<the tuple it returned>>
    df,                       \* SpecReconcile: the frame given to process_dataframe
    df_proc                   \* SpecReconcile: <<>> or <<the frame it returned>>

vars == <<store, cache, sessions, processing_complete, processed_records,
          skipped_files, show_delete_all_confirm, notices,
          uploaded_files, existing, outcome,
          pdf, extracted, df, df_proc>>

----------------------------------------------------------------------------
(* Bounds of the model.                                                    *)

MaxBatch == 2          \* files in one upload
MaxStore == 2          \* rows the worksheet may hold
MaxTextItems == 2      \* pattern matches present in one text (SpecExtract)
MaxRateCents == 82000  \* largest rate, in cents (SpecReconcile)

----------------------------------------------------------------------------
(* Config (src/ratecon_tracker.py:19-37).                                  *)

DEFAULT_CUSTOMER == "Covenant"
DRAYAGE_RATE == 400
CHASSIS_RATE == 35

----------------------------------------------------------------------------
(* Strings that the code takes apart are sequences of one-character        *)
(* strings; strings it only compares are TLA+ strings.                     *)

Digits == <<"0", "1", "2", "3", "4", "5", "6", "7", "8", "9">>

IsDigit(c) == \E i \in 1..10 : Digits[i] = c

DigitVal(c) == (CHOOSE i \in 1..10 : Digits[i] = c) - 1

RECURSIVE Replace(_, _)
\* str.replace(old, ""): the characters of s other than old, in order.
Replace(s, old) ==
    IF s = <<>> THEN <<>>
    ELSE IF Head(s) = old THEN Replace(Tail(s), old)
    ELSE <<Head(s)>> \o Replace(Tail(s), old)

----------------------------------------------------------------------------
(* extract_data_from_pdf.  A text is the sequence of the pattern matches   *)
(* it contains, in text position order: label is the literal the match     *)
(* starts with, cap the text of capture group 1.  Captures are never       *)
(* blank: (\S+) and [\d,]+ capture at least one non-blank character.       *)

ref_patterns == <<"Route #", "Reference #", "Pro #", "Load #", "Job #">>
rate_patterns == <<"Total Rate:", "Total Cost", "Amount:", "Rate:">>
equip_patterns == <<"Equipment:", "Trailer Type:", "Equipment Type:">>
container_patterns == <<"Container #:", "Container Number:", "Container ID:">>

\* re.search(pattern, ...) finds "Rate:" inside "Total Rate:" as well.
Matches(pattern, item) ==
    \/ item.label = pattern
    \/ pattern = "Rate:" /\ item.label = "Total Rate:"

\* re.search: the leftmost match of the pattern in the text, <<>> if none.
Search(pattern, text) ==
    IF \E j \in 1..Len(text) : Matches(pattern, text[j])
    THEN <<text[CHOOSE j \in 1..Len(text) :
                  /\ Matches(pattern, text[j])
                  /\ \A k \in 1..(j - 1) : ~Matches(pattern, text[k])]>>
    ELSE <<>>

RECURSIVE find_match_leftmost(_, _)
\* Mutation of find_match: the match that comes first in the text wins,
\* whatever the position of its pattern in the list.
find_match_leftmost(patterns, text) ==
    IF text = <<>> THEN <<>>
    ELSE IF \E i \in 1..Len(patterns) : Matches(patterns[i], Head(text))
         THEN <<Head(text).cap>>
         ELSE find_match_leftmost(patterns, Tail(text))

RECURSIVE find_match(_, _)
\* <<>> is None, <<c>> the stripped capture c.
find_match(patterns, text) ==
    IF patterns = <<>> THEN <<>>
    ELSE LET match == Search(Head(patterns), text)
         IN  IF match # <<>> THEN <<match[1].cap>>
             ELSE find_match(Tail(patterns), text)

Sentinels == [ref |-> "Unknown", rate |-> <<"0", ".", "0", "0">>,
              equip |-> "None", container |-> ""]

\* doc.readable = FALSE: pdfplumber raises, the except branch answers.
extract_data_from_pdf(doc) ==
    IF ~doc.readable THEN Sentinels
    ELSE LET ref == find_match(ref_patterns, doc.text)
             rate == find_match(rate_patterns, doc.text)
             equip == find_match(equip_patterns, doc.text)
             container == find_match(container_patterns, doc.text)
         IN  [ref |-> IF ref # <<>> THEN ref[1] ELSE Sentinels.ref,
              rate |-> IF rate # <<>> THEN Replace(rate[1], ",")
                       ELSE Sentinels.rate,
              equip |-> IF equip # <<>> THEN equip[1] ELSE Sentinels.equip,
              container |-> IF container # <<>> THEN container[1]
                            ELSE Sentinels.container]

----------------------------------------------------------------------------
(* process_dataframe.  Amounts are whole cents: "785.00" is 78500.  The    *)
(* rate strings drawn have at most two fraction digits.                    *)

RECURSIVE DigitsValue(_)
\* the number a run of digits denotes
DigitsValue(s) ==
    IF s = <<>> THEN 0
    ELSE 10 * DigitsValue(SubSeq(s, 1, Len(s) - 1)) + DigitVal(s[Len(s)])

AllDigits(s) == \A i \in 1..Len(s) : IsDigit(s[i])

\* pd.to_numeric(errors="coerce") of one string: digits, optionally a point
\* and up to two more digits, at least one digit in all, give <<cents>>;
\* anything else is NaN, written <<>>.
to_numeric(s) ==
    LET dots == {i \in 1..Len(s) : s[i] = "."}
    IN  IF dots = {} THEN
            IF s # <<>> /\ AllDigits(s) THEN <<100 * DigitsValue(s)>> ELSE <<>>
        ELSE IF Cardinality(dots) > 1 THEN <<>>
        ELSE LET p == CHOOSE i \in dots : TRUE
                 whole == SubSeq(s, 1, p - 1)
                 frac == SubSeq(s, p + 1, Len(s))
             IN  IF /\ AllDigits(whole) /\ AllDigits(frac)
                    /\ Len(whole) + Len(frac) > 0 /\ Len(frac) <= 2
                 THEN <<100 * DigitsValue(whole)
                        + (IF Len(frac) = 1 THEN 10 ELSE 1) * DigitsValue(frac)>>
                 ELSE <<>>

\* .str.replace("[$,]", "", regex=True), to_numeric(errors="coerce"), fillna(0)
ParsedRate(rate) ==
    LET n == to_numeric(Replace(Replace(rate, "$"), ","))
    IN  IF n = <<>> THEN 0 ELSE n[1]

\* Mutation of round: ties go up instead of to the even neighbour.
round_half_up(num, den) ==
    LET q == num \div den
        r == num % den
    IN  IF 2 * r < den THEN q ELSE q + 1

\* Python's round(num / den) for den > 0: nearest integer, ties to even.
round(num, den) ==
    LET q == num \div den
        r == num % den
    IN  IF 2 * r < den THEN q
        ELSE IF 2 * r > den THEN q + 1
        ELSE IF q % 2 = 0 THEN q ELSE q + 1

Max(a, b) == IF a >= b THEN a ELSE b

\* lambda x: max(round(x), 0) over (Parsed Rate - DRAYAGE_RATE) / CHASSIS_RATE
ChassisCount(parsed) ==
    Max(round(parsed - 100 * DRAYAGE_RATE, 100 * CHASSIS_RATE), 0)

\* Mutation of the Expected Rate column: the base rate is left out.
ExpectedRate_NoBase(count) == 100 * (count * CHASSIS_RATE)

\* DRAYAGE_RATE + Chassis Count * CHASSIS_RATE, in cents
ExpectedRate(count) == 100 * (DRAYAGE_RATE + count * CHASSIS_RATE)

ProcessRow(row) ==
    LET parsed == ParsedRate(row.Rate)
        count == ChassisCount(parsed)
        expected == ExpectedRate(count)
    IN  [Record |-> row, ParsedRate |-> parsed, ChassisCount |-> count,
         ExpectedRate |-> expected, Mismatch |-> (parsed # expected)]

\* df.empty returns df itself; otherwise one processed row per row
process_dataframe(frame) ==
    [i \in 1..Len(frame) |-> ProcessRow(frame[i])]

----------------------------------------------------------------------------
(* The uploads the model draws from.                                       *)

Item(label, cap) == [label |-> label, cap |-> cap]

Rate785 == <<"7", "8", "5", ".", "0", "0">>
Rate800 == <<"8", "0", "0", ".", "0", "0">>
Rate1100 == <<"1", ",", "1", "0", "0", ".", "0", "0">>

Readable(text) == [readable |-> TRUE, text |-> text]

\* pdfplumber cannot open it
PdfCorrupt == [readable |-> FALSE, text |-> <<>>]

\* What pdfplumber makes of an upload's bytes.  The bytes are opaque and
\* named by what they hold:
\*   route123     "Reference # 999" before "Route # 123": the reference is 123
\*   pro123       another document of load 123
\*   load999      load 999, every field present
\*   noreference  every field but the reference
\*   corrupt      not a PDF
pdfplumber_open(bytes) ==
    CASE bytes = "route123" ->
             Readable(<<Item("Reference #", "999"), Item("Route #", "123"),
                        Item("Total Rate:", Rate785)>>)
      [] bytes = "pro123" ->
             Readable(<<Item("Pro #", "123"), Item("Rate:", Rate800)>>)
      [] bytes = "load999" ->
             Readable(<<Item("Amount:", Rate1100), Item("Load #", "999"),
                        Item("Equipment:", "Dry Van"),
                        Item("Container #:", "MSKU1")>>)
      [] bytes = "noreference" ->
             Readable(<<Item("Total Rate:", Rate785),
                        Item("Trailer Type:", "Reefer"),
                        Item("Container ID:", "MSKU2")>>)
      [] OTHER -> PdfCorrupt

File(name, bytes) == [name |-> name, bytes |-> bytes]

Contents == {"route123", "pro123", "load999", "noreference", "corrupt"}

\* extract_data_from_pdf is a function of the bytes alone: its answers for
\* the uploads, worked out once
Extraction == [bytes \in Contents |-> extract_data_from_pdf(pdfplumber_open(bytes))]

UploadableFiles ==
    {File("a.pdf", "route123"), File("b.pdf", "pro123"),
     File("a.pdf", "load999"), File("b.pdf", "noreference"),
     File("a.pdf", "corrupt")}

RECURSIVE SeqsUpTo(_, _)
\* the sequences over S of length at most n
SeqsUpTo(S, n) ==
    IF n = 0 THEN {<<>>}
    ELSE LET shorter == SeqsUpTo(S, n - 1)
         IN  shorter \cup {Append(q, x) : q \in shorter, x \in S}

Batches == SeqsUpTo(UploadableFiles, MaxBatch) \ {<<>>}

AllSessions == {"s1", "s2"}

NoLookup == [refs |-> {}, files |-> {}]

----------------------------------------------------------------------------
(* The record store and its cache.                                         *)

\* load_log behind st.cache_data(ttl=60): a cached value is returned as it
\* is; otherwise the worksheet is read and the result cached.  When the read
\* fails (ok = FALSE) the except branch returns an empty frame, and that
\* return value is cached like any other.
load_log(c, rows, ok) ==
    IF c # <<>> THEN [df |-> c[1], cache |-> c, failed |-> FALSE]
    ELSE IF ok THEN [df |-> rows, cache |-> <<rows>>, failed |-> FALSE]
    ELSE [df |-> <<>>, cache |-> <<<<>>>>, failed |-> TRUE]

\* Mutation of append_to_sheet: the worksheet is rewritten with the new rows.
append_to_sheet_replacing(rows, c, new_records, ok) ==
    IF ok THEN [store |-> new_records, cache |-> <<>>, failed |-> FALSE]
    ELSE [store |-> rows, cache |-> c, failed |-> TRUE]

\* Mutation of append_to_sheet: only the records whose reference the
\* worksheet does not hold yet are appended.
append_to_sheet_rechecking(rows, c, new_records, ok) ==
    IF ok THEN [store |-> rows \o SelectSeq(new_records,
                                 LAMBDA r : \A i \in 1..Len(rows) : rows[i].Ref # r.Ref),
                cache |-> <<>>, failed |-> FALSE]
    ELSE [store |-> rows, cache |-> c, failed |-> TRUE]

\* append_to_sheet: append_rows and st.cache_data.clear(), or the except
\* branch, which reports the failure and returns normally.
append_to_sheet(rows, c, new_records, ok) ==
    IF ok THEN [store |-> rows \o new_records, cache |-> <<>>, failed |-> FALSE]
    ELSE [store |-> rows, cache |-> c, failed |-> TRUE]

UpdateResults == {"ok", "fails before clear", "fails after clear"}

\* update_sheet: worksheet.clear(), set_with_dataframe, st.cache_data.clear();
\* an exception at any call leaves what the earlier calls did.
update_sheet(rows, c, frame, result) ==
    IF result = "ok" THEN [store |-> frame, cache |-> <<>>, failed |-> FALSE]
    ELSE IF result = "fails after clear"
         THEN [store |-> <<>>, cache |-> c, failed |-> TRUE]
    ELSE [store |-> rows, cache |-> c, failed |-> TRUE]

----------------------------------------------------------------------------
(* run_file_processing.                                                    *)

Refs(frame) == {frame[i].Ref : i \in 1..Len(frame)}
Files(frame) == {frame[i].File : i \in 1..Len(frame)}

NewRecord(file, x) ==
    [Date |-> "today", Customer |-> DEFAULT_CUSTOMER, Ref |-> x.ref,
     Equipment |-> x.equip, Container |-> x.container, Rate |-> x.rate,
     File |-> file.name, Status |-> "Active", Notes |-> ""]

Skip(file, reason) == [file |-> file.name, reason |-> reason]

\* The loop's state: the two lists, the two lookup sets, and the branch
\* each file took.
LoopStart(existing_df) ==
    [new_records |-> <<>>, skipped_files |-> <<>>,
     existing_refs |-> Refs(existing_df), existing_files |-> Files(existing_df),
     outcome |-> <<>>]

\* Mutation of ProcessFile: the reference checks come before the filename
\* check.
ProcessFile_ReferenceFirst(st, file) ==
    LET x == Extraction[file.bytes]
    IN  IF x.ref = "Unknown" THEN
            [st EXCEPT !.skipped_files =
                           Append(@, Skip(file, <<"Unsupported Format.">>)),
                       !.outcome = Append(@, "unsupported format")]
        ELSE IF x.ref \in st.existing_refs THEN
            [st EXCEPT !.skipped_files =
                           Append(@, Skip(file, <<"Duplicate Reference # ", x.ref>>)),
                       !.outcome = Append(@, "duplicate reference")]
        ELSE IF file.name \in st.existing_files THEN
            [st EXCEPT !.skipped_files =
                           Append(@, Skip(file, <<"Duplicate filename.">>)),
                       !.outcome = Append(@, "duplicate filename")]
        ELSE
            [st EXCEPT !.new_records = Append(@, NewRecord(file, x)),
                       !.existing_refs = @ \cup {x.ref},
                       !.outcome = Append(@, "accepted")]

\* Mutation of ProcessFile: an accepted reference is not added to
\* existing_refs.
ProcessFile_NoRefAdd(st, file) ==
    LET x == Extraction[file.bytes]
    IN  IF file.name \in st.existing_files THEN
            [st EXCEPT !.skipped_files =
                           Append(@, Skip(file, <<"Duplicate filename.">>)),
                       !.outcome = Append(@, "duplicate filename")]
        ELSE IF x.ref = "Unknown" THEN
            [st EXCEPT !.skipped_files =
                           Append(@, Skip(file, <<"Unsupported Format.">>)),
                       !.outcome = Append(@, "unsupported format")]
        ELSE IF x.ref \in st.existing_refs THEN
            [st EXCEPT !.skipped_files =
                           Append(@, Skip(file, <<"Duplicate Reference # ", x.ref>>)),
                       !.outcome = Append(@, "duplicate reference")]
        ELSE
            [st EXCEPT !.new_records = Append(@, NewRecord(file, x)),
                       !.outcome = Append(@, "accepted")]

\* Mutation of ProcessFile: the sentinel reference is not looked for.
ProcessFile_NoSentinelCheck(st, file) ==
    LET x == Extraction[file.bytes]
    IN  IF file.name \in st.existing_files THEN
            [st EXCEPT !.skipped_files =
                           Append(@, Skip(file, <<"Duplicate filename.">>)),
                       !.outcome = Append(@, "duplicate filename")]
        ELSE IF x.ref \in st.existing_refs THEN
            [st EXCEPT !.skipped_files =
                           Append(@, Skip(file, <<"Duplicate Reference # ", x.ref>>)),
                       !.outcome = Append(@, "duplicate reference")]
        ELSE
            [st EXCEPT !.new_records = Append(@, NewRecord(file, x)),
                       !.existing_refs = @ \cup {x.ref},
                       !.outcome = Append(@, "accepted")]

\* one iteration of the for loop
ProcessFile(st, file) ==
    LET x == Extraction[file.bytes]
    IN  IF file.name \in st.existing_files THEN
            [st EXCEPT !.skipped_files =
                           Append(@, Skip(file, <<"Duplicate filename.">>)),
                       !.outcome = Append(@, "duplicate filename")]
        ELSE IF x.ref = "Unknown" THEN
            [st EXCEPT !.skipped_files =
                           Append(@, Skip(file, <<"Unsupported Format.">>)),
                       !.outcome = Append(@, "unsupported format")]
        ELSE IF x.ref \in st.existing_refs THEN
            [st EXCEPT !.skipped_files =
                           Append(@, Skip(file, <<"Duplicate Reference # ", x.ref>>)),
                       !.outcome = Append(@, "duplicate reference")]
        ELSE
            [st EXCEPT !.new_records = Append(@, NewRecord(file, x)),
                       !.existing_refs = @ \cup {x.ref},
                       !.outcome = Append(@, "accepted")]

RECURSIVE ProcessFiles(_, _)
\* the for loop over uploaded_files, in order
ProcessFiles(st, files) ==
    IF files = <<>> THEN st
    ELSE ProcessFiles(ProcessFile(st, Head(files)), Tail(files))

RunFileProcessing(s, files, ok) ==
    /\ s \in sessions
    /\ ~processing_complete[s]        \* the button is disabled otherwise
    /\ files # <<>>
    /\ \E loaded \in {load_log(cache, store, ok)} :
       \E done \in {ProcessFiles(LoopStart(loaded.df), files)} :
           /\ cache' = loaded.cache
           /\ processed_records' = [processed_records EXCEPT ![s] = done.new_records]
           /\ skipped_files' = [skipped_files EXCEPT ![s] = done.skipped_files]
           /\ processing_complete' = [processing_complete EXCEPT ![s] = TRUE]
           /\ notices' = [notices EXCEPT ![s] = {}]
           /\ uploaded_files' = [uploaded_files EXCEPT ![s] = files]
           /\ existing' = [existing EXCEPT ![s] =
                              [refs |-> Refs(loaded.df), files |-> Files(loaded.df)]]
           /\ outcome' = [outcome EXCEPT ![s] = done.outcome]
    /\ UNCHANGED <<store, sessions, show_delete_all_confirm,
                   pdf, extracted, df, df_proc>>

\* file_uploader's on_change: a changed upload re-enables the Process button
ChangeUpload(s) ==
    /\ s \in sessions
    /\ processing_complete[s]
    /\ processing_complete' = [processing_complete EXCEPT ![s] = FALSE]
    /\ notices' = [notices EXCEPT ![s] = {}]
    /\ uploaded_files' = [uploaded_files EXCEPT ![s] = <<>>]
    /\ existing' = [existing EXCEPT ![s] = NoLookup]
    /\ outcome' = [outcome EXCEPT ![s] = <<>>]
    /\ UNCHANGED <<store, cache, sessions, processed_records, skipped_files,
                   show_delete_all_confirm,
                   pdf, extracted, df, df_proc>>

----------------------------------------------------------------------------
(* run_save_records, run_delete_selected, run_delete_all and the script.   *)

\* The Save button is rendered while processing_complete holds and
\* processed_records is not empty.  uploader_key += 1 gives the file_uploader
\* a new key, that is an empty uploader: the counter itself is not kept.
\* st.rerun() inside a callback does nothing.
RunSaveRecords(s, ok) ==
    /\ s \in sessions
    /\ processing_complete[s]
    /\ processed_records[s] # <<>>
    /\ Len(store) + Len(processed_records[s]) <= MaxStore
    /\ \E appended \in {append_to_sheet(store, cache, processed_records[s], ok)} :
           /\ store' = appended.store
           /\ cache' = appended.cache
           /\ notices' = [notices EXCEPT ![s] =
                             (IF appended.failed THEN {"error: append failed"} ELSE {})
                             \cup {"toast: success, added records"}]
    /\ processing_complete' = [processing_complete EXCEPT ![s] = FALSE]
    /\ processed_records' = [processed_records EXCEPT ![s] = <<>>]
    /\ skipped_files' = [skipped_files EXCEPT ![s] = <<>>]
    /\ uploaded_files' = [uploaded_files EXCEPT ![s] = <<>>]
    /\ existing' = [existing EXCEPT ![s] = NoLookup]
    /\ outcome' = [outcome EXCEPT ![s] = <<>>]
    /\ UNCHANGED <<sessions, show_delete_all_confirm,
                   pdf, extracted, df, df_proc>>

\* df[~df["Reference #"].isin(refs_to_delete)]
WithoutRefs(frame, refs_to_delete) ==
    SelectSeq(frame, LAMBDA r : r.Ref \notin refs_to_delete)

Reloads == {"cached", "read again", "read fails"}

\* The multiselect offers the references of the frame the script rendered
\* (the cached one).  By the click the cache entry may have expired (ttl),
\* and then the callback's load_log reads the worksheet again.
RunDeleteSelected(s, refs_to_delete, reload, result) ==
    /\ s \in sessions
    /\ cache # <<>>
    /\ refs_to_delete # {}
    /\ refs_to_delete \subseteq Refs(cache[1])
    /\ \E loaded \in {load_log(IF reload = "cached" THEN cache ELSE <<>>,
                                store, reload # "read fails")} :
       \E updated \in {update_sheet(store, loaded.cache,
                                    WithoutRefs(loaded.df, refs_to_delete), result)} :
           /\ store' = updated.store
           /\ cache' = updated.cache
           /\ notices' = [notices EXCEPT ![s] = {}]
    /\ UNCHANGED <<sessions, processing_complete, processed_records,
                   skipped_files, show_delete_all_confirm,
                   uploaded_files, existing, outcome,
                   pdf, extracted, df, df_proc>>

\* The Manage tab shows the Danger Zone only for a frame that is not empty.
ManageShown == cache # <<>> /\ cache[1] # <<>>

\* "Delete All Records" pressed: the confirmation is asked for
ClickDeleteAll(s) ==
    /\ s \in sessions
    /\ ManageShown
    /\ ~show_delete_all_confirm[s]
    /\ show_delete_all_confirm' = [show_delete_all_confirm EXCEPT ![s] = TRUE]
    /\ notices' = [notices EXCEPT ![s] = {}]
    /\ UNCHANGED <<store, cache, sessions, processing_complete, processed_records,
                   skipped_files,
                   uploaded_files, existing, outcome,
                   pdf, extracted, df, df_proc>>

\* "Cancel" pressed
CancelDeleteAll(s) ==
    /\ s \in sessions
    /\ ManageShown
    /\ show_delete_all_confirm[s]
    /\ show_delete_all_confirm' = [show_delete_all_confirm EXCEPT ![s] = FALSE]
    /\ notices' = [notices EXCEPT ![s] = {}]
    /\ UNCHANGED <<store, cache, sessions, processing_complete, processed_records,
                   skipped_files,
                   uploaded_files, existing, outcome,
                   pdf, extracted, df, df_proc>>

\* "Yes, Delete Everything" pressed
RunDeleteAll(s, result) ==
    /\ s \in sessions
    /\ ManageShown
    /\ show_delete_all_confirm[s]
    /\ \E updated \in {update_sheet(store, cache, <<>>, result)} :
           /\ store' = updated.store
           /\ cache' = updated.cache
           /\ notices' = [notices EXCEPT ![s] = {}]
    /\ show_delete_all_confirm' = [show_delete_all_confirm EXCEPT ![s] = FALSE]
    /\ UNCHANGED <<sessions, processing_complete, processed_records,
                   skipped_files,
                   uploaded_files, existing, outcome,
                   pdf, extracted, df, df_proc>>

\* df = load_log() of a script run that finds no cached frame
MainLoadLog(s, ok) ==
    /\ s \in sessions
    /\ cache = <<>>
    /\ cache' = load_log(cache, store, ok).cache
    /\ notices' = [notices EXCEPT ![s] = {}]
    /\ UNCHANGED <<store, sessions, processing_complete, processed_records,
                   skipped_files, show_delete_all_confirm,
                   uploaded_files, existing, outcome,
                   pdf, extracted, df, df_proc>>

\* the ttl of st.cache_data(ttl=60) runs out
CacheExpire ==
    /\ cache # <<>>
    /\ cache' = <<>>
    /\ UNCHANGED <<store, sessions, processing_complete, processed_records,
                   skipped_files, show_delete_all_confirm, notices,
                   uploaded_files, existing, outcome,
                   pdf, extracted, df, df_proc>>

----------------------------------------------------------------------------
(* Spec: one session with the store to itself.                             *)

\* main(): the session state's defaults; the worksheet holds no rows yet
InitSession ==
    /\ store = <<>>
    /\ cache = <<>>
    /\ processing_complete = [s \in AllSessions |-> FALSE]
    /\ processed_records = [s \in AllSessions |-> <<>>]
    /\ skipped_files = [s \in AllSessions |-> <<>>]
    /\ show_delete_all_confirm = [s \in AllSessions |-> FALSE]
    /\ notices = [s \in AllSessions |-> {}]
    /\ uploaded_files = [s \in AllSessions |-> <<>>]
    /\ existing = [s \in AllSessions |-> NoLookup]
    /\ outcome = [s \in AllSessions |-> <<>>]

Idle ==
    /\ pdf = PdfCorrupt
    /\ extracted = <<>>
    /\ df = <<>>
    /\ df_proc = <<>>

Init ==
    /\ sessions = {"s1"}
    /\ InitSession
    /\ Idle

\* the references the multiselect offers
RenderedRefs == IF cache = <<>> THEN {} ELSE Refs(cache[1])

\* whether a read of the worksheet succeeds matters only when one is made
ReadOutcomes == IF cache = <<>> THEN BOOLEAN ELSE {TRUE}

Next ==
    \/ \E s \in AllSessions, files \in Batches, ok \in ReadOutcomes :
           RunFileProcessing(s, files, ok)
    \/ \E s \in AllSessions : ChangeUpload(s)
    \/ \E s \in AllSessions, ok \in BOOLEAN : RunSaveRecords(s, ok)
    \/ \E s \in AllSessions, refs_to_delete \in SUBSET RenderedRefs,
          reload \in Reloads, result \in UpdateResults :
           RunDeleteSelected(s, refs_to_delete, reload, result)
    \/ \E s \in AllSessions : ClickDeleteAll(s)
    \/ \E s \in AllSessions : CancelDeleteAll(s)
    \/ \E s \in AllSessions, result \in UpdateResults : RunDeleteAll(s, result)
    \/ \E s \in AllSessions, ok \in BOOLEAN : MainLoadLog(s, ok)
    \/ CacheExpire

Spec == Init /\ [][Next]_vars

----------------------------------------------------------------------------
(* SpecConcurrent: two sessions of the one server process ingest into the  *)
(* same worksheet; st.cache_data is shared by the sessions.  Every read of *)
(* the worksheet succeeds, so that what the sessions do to each other is   *)
(* not mixed with the empty frame load_log returns for a failed read.      *)

InitConcurrent ==
    /\ sessions = AllSessions
    /\ InitSession
    /\ Idle

NextConcurrent ==
    \/ \E s \in AllSessions, files \in Batches : RunFileProcessing(s, files, TRUE)
    \/ \E s \in AllSessions : ChangeUpload(s)
    \/ \E s \in AllSessions, ok \in BOOLEAN : RunSaveRecords(s, ok)
    \/ \E s \in AllSessions : MainLoadLog(s, TRUE)
    \/ CacheExpire

SpecConcurrent == InitConcurrent /\ [][NextConcurrent]_vars

----------------------------------------------------------------------------
(* SpecExtract: extract_data_from_pdf over every text of at most           *)
(* MaxTextItems pattern matches, and over an unreadable document.          *)

AllPatterns == ref_patterns \o rate_patterns \o equip_patterns \o container_patterns

IsRatePattern(label) == \E i \in 1..Len(rate_patterns) : rate_patterns[i] = label

TextItems ==
    {Item(AllPatterns[i], cap) :
        i \in {j \in 1..Len(AllPatterns) : ~IsRatePattern(AllPatterns[j])},
        cap \in {"123", "999"}}
    \cup {Item(rate_patterns[i], cap) :
            i \in 1..Len(rate_patterns), cap \in {Rate785, Rate1100}}

ExtractInputs ==
    {Readable(text) : text \in SeqsUpTo(TextItems, MaxTextItems)} \cup {PdfCorrupt}

InitExtract ==
    /\ sessions = {}
    /\ InitSession
    /\ pdf \in ExtractInputs
    /\ extracted = <<>>
    /\ df = <<>>
    /\ df_proc = <<>>

ExtractDataFromPdf ==
    /\ extracted = <<>>
    /\ extracted' = <<extract_data_from_pdf(pdf)>>
    /\ UNCHANGED <<store, cache, sessions, processing_complete, processed_records,
                   skipped_files, show_delete_all_confirm, notices,
                   uploaded_files, existing, outcome, pdf, df, df_proc>>

NextExtract == ExtractDataFromPdf

SpecExtract == InitExtract /\ [][NextExtract]_vars

----------------------------------------------------------------------------
(* SpecReconcile: process_dataframe over one-row frames whose Rate is any  *)
(* amount of whole cents up to MaxRateCents, written as the extractor      *)
(* writes it, or one of a few other strings a sheet may hold.              *)

RECURSIVE DigitsOf(_)
\* the decimal numeral of n >= 0
DigitsOf(n) ==
    IF n < 10 THEN <<Digits[n + 1]>>
    ELSE Append(DigitsOf(n \div 10), Digits[(n % 10) + 1])

\* "%d.%02d" of an amount in cents
FormatCents(c) ==
    DigitsOf(c \div 100) \o <<".", Digits[((c % 100) \div 10) + 1], Digits[(c % 10) + 1]>>

OtherRates ==
    {<<"$">> \o Rate785, <<"$">> \o Rate800, <<"$">> \o Rate1100, Rate1100,
     <<"7", "8", "5">>, <<"4", "1", "7", ".", "5">>, <<"7", "8", "5", ".">>,
     <<".", "5">>, <<>>, <<"N", "/", "A">>, <<"1", ".", "2", ".", "3">>,
     <<".">>, <<"$">>}

RateStrings == {FormatCents(c) : c \in 0..MaxRateCents} \cup OtherRates

StoredRow(rate) ==
    [Date |-> "today", Customer |-> DEFAULT_CUSTOMER, Ref |-> "123",
     Equipment |-> "None", Container |-> "", Rate |-> rate,
     File |-> "a.pdf", Status |-> "Active", Notes |-> ""]

InitReconcile ==
    /\ sessions = {}
    /\ InitSession
    /\ pdf = PdfCorrupt
    /\ extracted = <<>>
    /\ df \in {<<>>} \cup {<<StoredRow(rate)>> : rate \in RateStrings}
    /\ df_proc = <<>>

ProcessDataframe ==
    /\ df_proc = <<>>
    /\ df_proc' = <<process_dataframe(df)>>
    /\ UNCHANGED <<store, cache, sessions, processing_complete, processed_records,
                   skipped_files, show_delete_all_confirm, notices,
                   uploaded_files, existing, outcome, pdf, extracted, df>>

NextReconcile == ProcessDataframe

SpecReconcile == InitReconcile /\ [][NextReconcile]_vars

----------------------------------------------------------------------------
(* Properties of run_file_processing, read off a session whose processing  *)
(* is complete: uploaded_files[s] is the batch, existing[s] the lookup     *)
(* sets built from load_log, outcome[s] the branch each file took.         *)

Processed(s) == s \in sessions /\ processing_complete[s]

Batch(s) == uploaded_files[s]

RefOf(s, i) == Extraction[Batch(s)[i].bytes].ref

Accepted(s, i) == outcome[s][i] = "accepted"

\* the reference set when file i is looked at
RefsBefore(s, i) ==
    existing[s].refs \cup {RefOf(s, j) : j \in {k \in 1..(i - 1) : Accepted(s, k)}}

\* the number of files up to i that were accepted, or that were skipped
AcceptedUpTo(s, i) == Cardinality({k \in 1..i : Accepted(s, k)})
SkippedUpTo(s, i) == Cardinality({k \in 1..i : ~Accepted(s, k)})

FirstApplicable(s, i) ==
    IF Batch(s)[i].name \in existing[s].files THEN "duplicate filename"
    ELSE IF RefOf(s, i) = "Unknown" THEN "unsupported format"
    ELSE IF RefOf(s, i) \in RefsBefore(s, i) THEN "duplicate reference"
    ELSE "accepted"

ReasonOf(s, i) ==
    CASE outcome[s][i] = "duplicate filename" -> <<"Duplicate filename.">>
      [] outcome[s][i] = "unsupported format" -> <<"Unsupported Format.">>
      [] OTHER -> <<"Duplicate Reference # ", RefOf(s, i)>>

\* C1: every file of a processed batch is classified by the first check
\* that applies, in the order duplicate filename, unsupported format,
\* duplicate reference, accepted; the skipped list holds the skipped files
\* with the reason of that check and the accepted list the accepted files,
\* both in input order.
C1_FirstApplicableCheck ==
    \A s \in AllSessions :
        Processed(s) =>
            /\ Len(outcome[s]) = Len(Batch(s))
            /\ Len(processed_records[s]) = AcceptedUpTo(s, Len(Batch(s)))
            /\ Len(skipped_files[s]) = SkippedUpTo(s, Len(Batch(s)))
            /\ \A i \in 1..Len(Batch(s)) :
                   /\ outcome[s][i] = FirstApplicable(s, i)
                   /\ IF Accepted(s, i)
                      THEN LET r == processed_records[s][AcceptedUpTo(s, i)]
                           IN  r.File = Batch(s)[i].name /\ r.Ref = RefOf(s, i)
                      ELSE skipped_files[s][SkippedUpTo(s, i)]
                               = Skip(Batch(s)[i], ReasonOf(s, i))

\* a file whose name and whose reference are both stored already is
\* reported as a duplicate filename, next to a file that is accepted
C1_Witness ==
    \E s \in AllSessions :
        /\ Processed(s)
        /\ \E i, j \in 1..Len(Batch(s)) :
               /\ Batch(s)[i].name \in existing[s].files
               /\ RefOf(s, i) \in existing[s].refs
               /\ outcome[s][i] = "duplicate filename"
               /\ outcome[s][j] = "accepted"

\* files i < j of one batch with the same reference, which is not the
\* sentinel and not stored, and with names that are not stored
SameNovelRef(s, i, j) ==
    /\ i < j
    /\ RefOf(s, i) = RefOf(s, j)
    /\ RefOf(s, i) # "Unknown"
    /\ RefOf(s, i) \notin existing[s].refs
    /\ Batch(s)[i].name \notin existing[s].files
    /\ Batch(s)[j].name \notin existing[s].files

\* C2: of the files of one batch that extract the same novel reference, the
\* first is accepted and every later one is skipped as a duplicate of that
\* reference; the accepted list never holds a reference twice.
C2_BatchInternalDuplicates ==
    \A s \in AllSessions :
        Processed(s) =>
            /\ \A i, j \in 1..Len(Batch(s)) :
                   SameNovelRef(s, i, j) =>
                       /\ (\A k \in 1..(i - 1) : RefOf(s, k) # RefOf(s, i))
                              => Accepted(s, i)
                       /\ outcome[s][j] = "duplicate reference"
                       /\ skipped_files[s][SkippedUpTo(s, j)].reason
                              = <<"Duplicate Reference # ", RefOf(s, j)>>
            /\ \A m, n \in 1..Len(processed_records[s]) :
                   m # n => processed_records[s][m].Ref # processed_records[s][n].Ref

\* two files with different names and the same novel reference in one batch
C2_Witness ==
    \E s \in AllSessions :
        /\ Processed(s)
        /\ \E i, j \in 1..Len(Batch(s)) :
               /\ SameNovelRef(s, i, j)
               /\ Batch(s)[i].name # Batch(s)[j].name
               /\ Accepted(s, i)
               /\ outcome[s][j] = "duplicate reference"

----------------------------------------------------------------------------
(* Uniqueness in the store.                                                *)

\* C3: no two rows of the store have the same Reference #.
C3_ReferenceUnique ==
    \A i, j \in 1..Len(store) : i # j => store[i].Ref # store[j].Ref

\* C4: no two rows of the store have the same File.
C4_FileUnique ==
    \A i, j \in 1..Len(store) : i # j => store[i].File # store[j].File

----------------------------------------------------------------------------
(* Sentinel propagation.                                                   *)

\* the bytes hold no match of a reference pattern, or cannot be decoded
NoReferenceIn(bytes) ==
    LET doc == pdfplumber_open(bytes)
    IN  \/ ~doc.readable
        \/ \A k \in 1..Len(doc.text) :
               \A n \in 1..Len(ref_patterns) : doc.text[k].label # ref_patterns[n]

\* C5 as stated: every file without a reference is skipped with the reason
\* "Unsupported Format.".
C5_AlwaysUnsupportedFormat ==
    \A s \in AllSessions :
        Processed(s) =>
            \A i \in 1..Len(Batch(s)) :
                NoReferenceIn(Batch(s)[i].bytes) =>
                    /\ RefOf(s, i) = "Unknown"
                    /\ outcome[s][i] = "unsupported format"
                    /\ skipped_files[s][SkippedUpTo(s, i)].reason
                           = <<"Unsupported Format.">>

\* C5, amended: every file without a reference extracts "Unknown" and is
\* skipped, with the reason "Unsupported Format." unless its filename is
\* stored already, and then with "Duplicate filename."; whatever else its
\* text holds it is never accepted, the sentinel never enters the reference
\* set (no accepted record carries it, no file is reported as a duplicate of
\* it), and every file of the batch after it is still classified.
C5_SentinelSkipped ==
    \A s \in AllSessions :
        Processed(s) =>
            /\ Len(outcome[s]) = Len(Batch(s))
            /\ \A m \in 1..Len(processed_records[s]) :
                   processed_records[s][m].Ref # "Unknown"
            /\ \A i \in 1..Len(Batch(s)) :
                   NoReferenceIn(Batch(s)[i].bytes) =>
                       /\ RefOf(s, i) = "Unknown"
                       /\ ~Accepted(s, i)
                       /\ outcome[s][i] =
                              (IF Batch(s)[i].name \in existing[s].files
                               THEN "duplicate filename" ELSE "unsupported format")
                       /\ skipped_files[s][SkippedUpTo(s, i)] =
                              Skip(Batch(s)[i],
                                   IF Batch(s)[i].name \in existing[s].files
                                   THEN <<"Duplicate filename.">>
                                   ELSE <<"Unsupported Format.">>)
                       /\ \A j \in (i + 1)..Len(Batch(s)) :
                              outcome[s][j] = FirstApplicable(s, j)

\* a text with a rate, an equipment and a container but no reference is
\* skipped as unsupported, and the file after it is accepted
C5_Witness ==
    \E s \in AllSessions :
        /\ Processed(s)
        /\ \E i, j \in 1..Len(Batch(s)) :
               /\ i < j
               /\ Batch(s)[i].bytes = "noreference"
               /\ Extraction["noreference"].rate = Rate785
               /\ Extraction["noreference"].equip = "Reefer"
               /\ outcome[s][i] = "unsupported format"
               /\ Accepted(s, j)

----------------------------------------------------------------------------
(* What a step does to the store.                                          *)

Rows(frame) == {frame[i] : i \in 1..Len(frame)}

CachedRows == IF cache = <<>> THEN {} ELSE Rows(cache[1])

\* the step is a run_file_processing of s: its processing becomes complete
ProcessingStep(s) == ~processing_complete[s] /\ processing_complete'[s]

\* the step is a run_save_records of s: its pending records are taken
SaveStep(s) ==
    /\ processing_complete[s] /\ ~processing_complete'[s]
    /\ processed_records[s] # <<>> /\ processed_records'[s] = <<>>

----------------------------------------------------------------------------
(* A save that finds the store unavailable.                                *)

\* C7: when append_to_sheet fails, the failure is shown, no success is
\* reported, and processed_records, skipped_files and processing_complete
\* keep their values.
C7_FailedSaveKeepsState ==
    [][\A s \in AllSessions :
           RunSaveRecords(s, FALSE) =>
               /\ "error: append failed" \in notices'[s]
               /\ "toast: success, added records" \notin notices'[s]
               /\ processed_records'[s] = processed_records[s]
               /\ skipped_files'[s] = skipped_files[s]
               /\ processing_complete'[s] = processing_complete[s]
      ]_vars

----------------------------------------------------------------------------
(* Reconciliation (SpecReconcile).  BaseCents and UnitCents are the two    *)
(* rates in cents.                                                         *)

BaseCents == 100 * DRAYAGE_RATE
UnitCents == 100 * CHASSIS_RATE

NotNumbers == {<<>>, <<"N", "/", "A">>, <<"1", ".", "2", ".", "3">>, <<".">>, <<"$">>}

\* what the rate strings that are not written as "%d.%02d" denote, in cents
OtherAmounts(rate) ==
    CASE rate \in NotNumbers -> 0
      [] rate \in {<<"$">> \o Rate785, <<"7", "8", "5">>, <<"7", "8", "5", ".">>} -> 78500
      [] rate = <<"$">> \o Rate800 -> 80000
      [] rate \in {<<"$">> \o Rate1100, Rate1100} -> 110000
      [] rate = <<"4", "1", "7", ".", "5">> -> 41750
      [] rate = <<".", "5">> -> 50

\* C8: Parsed Rate is the amount the Rate string denotes, 0 for a string
\* that is no number; Chassis Count is never negative, is 0 for a Parsed
\* Rate below the base rate, and otherwise is the integer nearest to
\* (Parsed Rate - base rate) / unit rate, the even one of the two when the
\* quotient lies exactly between two integers.
C8_UnitCount ==
    df_proc # <<>> =>
        \A i \in 1..Len(df_proc[1]) :
            LET row == df_proc[1][i]
                rate == row.Record.Rate
                parsed == row.ParsedRate
                count == row.ChassisCount
                excess == parsed - BaseCents
            IN  /\ IF rate \in OtherRates THEN parsed = OtherAmounts(rate)
                   ELSE parsed \in 0..MaxRateCents /\ FormatCents(parsed) = rate
                /\ count >= 0
                /\ parsed < BaseCents => count = 0
                /\ parsed >= BaseCents =>
                       /\ 2 * (count * UnitCents - excess) <= UnitCents
                       /\ 2 * (excess - count * UnitCents) <= UnitCents
                       /\ (2 * (count * UnitCents - excess) = UnitCents
                           \/ 2 * (excess - count * UnitCents) = UnitCents)
                              => count % 2 = 0

\* 417.50 lies half a unit above the base rate and counts 0 units
C8_Witness ==
    /\ df_proc # <<>>
    /\ Len(df_proc[1]) = 1
    /\ df_proc[1][1].Record.Rate = <<"4", "1", "7", ".", "5", "0">>
    /\ df_proc[1][1].ParsedRate = 41750
    /\ df_proc[1][1].ChassisCount = 0

\* C9: Expected Rate is base rate + Chassis Count * unit rate, Mismatch is
\* true exactly when Parsed Rate differs from it, so that a row is unflagged
\* exactly when its rate is the base rate plus a whole number k >= 0 of
\* units; 785.00 gives 11 units, 785 expected and no mismatch, 800.00 gives
\* 11 units, 785 expected and a mismatch.
C9_Mismatch ==
    df_proc # <<>> =>
        \A i \in 1..Len(df_proc[1]) :
            LET row == df_proc[1][i]
            IN  /\ row.ExpectedRate = BaseCents + row.ChassisCount * UnitCents
                /\ row.Mismatch = (row.ParsedRate # row.ExpectedRate)
                /\ ~row.Mismatch <=>
                       \E k \in 0..(row.ParsedRate \div UnitCents) :
                           row.ParsedRate = BaseCents + k * UnitCents
                /\ row.Record.Rate = Rate785 =>
                       /\ row.ChassisCount = 11
                       /\ row.ExpectedRate = 78500
                       /\ ~row.Mismatch
                /\ row.Record.Rate = Rate800 =>
                       /\ row.ChassisCount = 11
                       /\ row.ExpectedRate = 78500
                       /\ row.Mismatch

\* the row of rate 800.00, processed and flagged
C9_Witness ==
    /\ df_proc # <<>>
    /\ Len(df_proc[1]) = 1
    /\ df_proc[1][1].Record.Rate = Rate800
    /\ df_proc[1][1].Mismatch

----------------------------------------------------------------------------
(* Extraction (SpecExtract).                                               *)

HasMatch(pattern, text) == \E j \in 1..Len(text) : Matches(pattern, text[j])

\* the capture of the leftmost match of the pattern
FirstCapture(pattern, text) ==
    text[CHOOSE j \in 1..Len(text) :
             /\ Matches(pattern, text[j])
             /\ \A k \in 1..(j - 1) : ~Matches(pattern, text[k])].cap

\* value is what the fallback order prescribes for the list: the capture
\* (changed by post) of the first pattern of the list that matches anywhere
\* in the text, or the sentinel when no pattern of the list matches.
FallbackOrder(patterns, text, value, sentinel, post(_)) ==
    IF \E n \in 1..Len(patterns) : HasMatch(patterns[n], text)
    THEN LET n == CHOOSE m \in 1..Len(patterns) :
                      /\ HasMatch(patterns[m], text)
                      /\ \A l \in 1..(m - 1) : ~HasMatch(patterns[l], text)
         IN  value = post(FirstCapture(patterns[n], text))
    ELSE value = sentinel

Same(cap) == cap
NoCommas(cap) == SelectSeq(cap, LAMBDA c : c # ",")

\* C10: each extracted field is the capture of the first pattern of its
\* list, in list order, that matches anywhere in the text, wherever the
\* later patterns match, and the sentinel only when no pattern of the list
\* matches; a text that holds both "Route # 123" (its only route number)
\* and "Reference # 999" yields the reference 123.  When a text holds
\* several route numbers the first conjunct applies: the leftmost one is
\* returned.
C10_FallbackOrder ==
    (extracted # <<>> /\ pdf.readable) =>
        LET x == extracted[1]
            text == pdf.text
        IN  /\ FallbackOrder(ref_patterns, text, x.ref, "Unknown", Same)
            /\ FallbackOrder(rate_patterns, text, x.rate, <<"0", ".", "0", "0">>, NoCommas)
            /\ FallbackOrder(equip_patterns, text, x.equip, "None", Same)
            /\ FallbackOrder(container_patterns, text, x.container, "", Same)
            /\ x.ref = "Unknown" <=>
                   \A n \in 1..Len(ref_patterns) : ~HasMatch(ref_patterns[n], text)
            /\ (/\ \E j \in 1..Len(text) : text[j] = Item("Route #", "123")
                /\ \A j \in 1..Len(text) :
                       text[j].label = "Route #" => text[j].cap = "123"
                /\ \E j \in 1..Len(text) : text[j] = Item("Reference #", "999"))
                   => x.ref = "123"

\* "Reference # 999" comes first in the text and the reference is 123
C10_Witness ==
    /\ extracted # <<>>
    /\ pdf = Readable(<<Item("Reference #", "999"), Item("Route #", "123")>>)
    /\ extracted[1].ref = "123"

----------------------------------------------------------------------------
(* Two sessions and one store (SpecConcurrent).                            *)

\* the frame a load_log call of this moment returns when the read succeeds
Snapshot == IF cache # <<>> THEN cache[1] ELSE store

NoDuplicateRefs(frame) ==
    \A i, j \in 1..Len(frame) : frame[i].Ref = frame[j].Ref => i = j

PendingRefs(s) == Refs(processed_records[s])

\* C11: run_file_processing decides against a snapshot of the store (the
\* frame load_log returns at that moment): it accepts nothing the snapshot
\* holds and looks at no other session's pending records; run_save_records
\* appends every pending record without looking at the store again, also
\* the ones whose reference the store holds by then; and the store comes to
\* hold a reference twice only by such a save, of a record whose reference
\* another save stored after the snapshot was taken.
C11_SnapshotRace ==
    [][/\ \A s \in AllSessions :
              ProcessingStep(s) =>
                  /\ existing'[s].refs = Refs(Snapshot)
                  /\ PendingRefs(s)' \cap Refs(Snapshot) = {}
                  /\ store' = store
       /\ \A s \in AllSessions :
              RunSaveRecords(s, TRUE) => store' = store \o processed_records[s]
       /\ (NoDuplicateRefs(store) /\ ~NoDuplicateRefs(store')) =>
              \E s \in AllSessions :
                  /\ SaveStep(s)
                  /\ PendingRefs(s) \cap Refs(store) # {}
                  /\ PendingRefs(s) \cap existing[s].refs = {}
      ]_vars

\* both sessions have just saved, each with success, and the store holds
\* two records with the same reference, one from each upload
C11_Witness ==
    /\ sessions = AllSessions
    /\ \A s \in AllSessions : notices[s] = {"toast: success, added records"}
    /\ Len(store) = 2
    /\ store[1].Ref = store[2].Ref
    /\ store[1].File # store[2].File

----------------------------------------------------------------------------
(* Replacing the whole collection.                                         *)

\* C12: a delete leaves in the store exactly the new record set when
\* update_sheet succeeds (the records whose reference is not selected;
\* nothing for delete-all) and exactly the previous record set when
\* update_sheet fails at any of its calls: no step leaves the store cleared
\* with the new records not written.
C12_ReplaceAtomic ==
    [][/\ \A s \in AllSessions, refs_to_delete \in SUBSET RenderedRefs,
             reload \in Reloads, result \in UpdateResults :
              RunDeleteSelected(s, refs_to_delete, reload, result) =>
                  IF result = "ok"
                  THEN store' = WithoutRefs(store, refs_to_delete)
                  ELSE store' = store
       /\ \A s \in AllSessions, result \in UpdateResults :
              RunDeleteAll(s, result) =>
                  IF result = "ok" THEN store' = <<>> ELSE store' = store
      ]_vars

====
